---- MODULE Spec2Model ----
(***************************************************************************)
(* Light Text-to-Image: the App component (session state, history,        *)
(* generation), the Editor component (mask canvas, generative fill) and   *)
(* the Gemini client calls they await.                                    *)
(*                                                                         *)
(* The program is single-threaded and event-driven.  One action of this   *)
(* module is one event handler run to its next suspension point (an       *)
(* await), or the continuation of a handler after an await.  React state  *)
(* updates made by one such run are committed together before the next    *)
(* event is dispatched, so a handler always reads the state of the latest *)
(* render.                                                                 *)
(***************************************************************************)
EXTENDS Integers, Sequences, FiniteSets, TLC

(* ------------------------------ bounds -------------------------------- *)
\* image payloads the remote service can return (1..NumImages)
NumImages == 2
\* longest history explored; a success that would exceed it is not taken
MaxHist == 3
\* most requests outstanding at once
MaxInFlight == 2
\* pointer positions on the canvas (1..NumPoints)
NumPoints == 1
\* most stroke segments kept on the overlay
MaxStrokes == 1

(* --------------------------- program values --------------------------- *)
\* currentImage === null
NoImage == 0
Images == 1..NumImages
\* The payload is wrapped as `data:image/png;base64,${data}` without being
\* validated; payload 1 stands for data that no browser decodes, so that an
\* Image element given it never fires onload.
Undecodable == 1
Decodable(img) == img # Undecodable

\* error === null
NoError == "null"
MsgNoKey == "API Key is missing."
MsgNoImage == "No image data returned from Gemini."
MsgGenerateFallback == "Failed to generate image."
MsgNoEdited == "No edited image returned."
MsgEditFallback == "Failed to edit image."
MsgBlankFill == "Please describe what to fill in the brushed area."
\* message of the error thrown by the transport ("" when it carries none)
TransportMessages == {"", "fetch failed"}

AspectRatio == {"1:1", "16:9", "9:16", "4:3", "3:4"}
SQUARE == "1:1"

\* prompt texts, as sequences of characters
SP == " "
PromptTexts == {<<>>, <<SP>>, <<"a">>}

InitialBrush == 30
MinBrush == 5
BrushSizes == {MinBrush, InitialBrush}

Points == 1..NumPoints
\* the canvas path has no current point
NoPoint == 0

(* ------------------------------- state -------------------------------- *)
VARIABLES
    apiKey,        \* process.env.API_KEY is set
    prompt,        \* App: prompt
    ratio,         \* App: ratio
    currentImage,  \* App: currentImage
    history,       \* App: history
    isGenerating,  \* App: isGenerating
    mode,          \* App: mode
    error,         \* App: error
    brushSize,     \* Editor: brushSize
    edPrompt,      \* Editor: prompt
    isProcessing,  \* Editor: isProcessing
    isDrawing,     \* Editor: isDrawing
    mask,          \* Editor: the strokes on the mask canvas
    pathPt,        \* Editor: current point of the canvas context's path
    effLoads,      \* Editor: images whose load the canvas effect awaits
    sizedFor,      \* Editor: the image whose width and height the canvas has
    reqs,          \* handler runs suspended at an await, oldest first
    ev             \* the last event handled (observation only)

appVars == <<prompt, ratio, currentImage, history, isGenerating, mode, error>>
edVars == <<brushSize, edPrompt, isProcessing, isDrawing, mask, pathPt, effLoads,
           sizedFor>>
vars == <<apiKey, appVars, edVars, reqs, ev>>

(* ------------------------------ helpers ------------------------------- *)
Last(s) == s[Len(s)]
Front(s) == SubSeq(s, 1, Len(s) - 1)
RemoveAt(s, i) == SubSeq(s, 1, i - 1) \o SubSeq(s, i + 1, Len(s))

RECURSIVE TrimStart(_)
TrimStart(s) == IF s # <<>> /\ Head(s) = SP THEN TrimStart(Tail(s)) ELSE s
RECURSIVE TrimEnd(_)
TrimEnd(s) == IF s # <<>> /\ Last(s) = SP THEN TrimEnd(Front(s)) ELSE s
\* prompt.trim() left out: the text is tested as typed
TrimNothing(s) == s

\* String.prototype.trim
Trim(s) == TrimEnd(TrimStart(s))

\* a || b on strings
OrElse(a, b) == IF a = "" THEN b ELSE a

\* history and current image, as an event found them
Session(h, c) == [history |-> h, currentImage |-> c]

Event(op) == [op |-> op, stale |-> FALSE, alive |-> TRUE, img |-> NoImage, n |-> 0,
              pt |-> NoPoint, before |-> Session(<<>>, NoImage)]

\* The generate form is rendered.
FormShown == currentImage = NoImage /\ mode = "generate"
\* The viewer (Download / Continue Editing / New Image) is rendered.
ViewerShown == currentImage # NoImage /\ mode = "generate"
\* The editor toolbar and the Editor component are rendered.
EditorShown == currentImage # NoImage /\ mode = "edit"

\* A newer operation has started: every outstanding request is superseded.
Superseded(rs) == [i \in 1..Len(rs) |-> [rs[i] EXCEPT !.stale = TRUE]]
\* The Editor instance that issued the edit requests has been unmounted.
Orphaned(rs) == [i \in 1..Len(rs) |-> [rs[i] EXCEPT !.alive = (rs[i].kind = "gen")]]


\* useEffect([imageBase64]) of the Editor: a new Image is created and its
\* onload awaited; an undecodable image never fires it.
Reload(img) == IF Decodable(img) THEN {img} ELSE {}

\* The Editor across a render in which App holds currentImage = cur2 and
\* mode = mode2.  While it stays mounted its state is kept (m2, p2, proc2 are
\* the mask, prompt and isProcessing the running handler leaves) and the
\* canvas effect runs again when the image prop changed; a fresh instance
\* starts from its useState defaults and runs the effect once; an unmounted
\* one has no state.
EditorRender(cur2, mode2, m2, p2, proc2) ==
    IF cur2 # NoImage /\ mode2 = "edit"
    THEN IF EditorShown
         THEN /\ brushSize' = brushSize
              /\ edPrompt' = p2
              /\ isProcessing' = proc2
              /\ isDrawing' = isDrawing
              /\ mask' = m2
              /\ pathPt' = pathPt
              /\ effLoads' = IF cur2 = currentImage THEN effLoads
                             ELSE effLoads \cup Reload(cur2)
              /\ sizedFor' = sizedFor
         ELSE /\ brushSize' = InitialBrush
              /\ edPrompt' = <<>>
              /\ isProcessing' = FALSE
              /\ isDrawing' = FALSE
              /\ mask' = {}
              /\ pathPt' = NoPoint
              /\ effLoads' = Reload(cur2)
              /\ sizedFor' = NoImage
    ELSE /\ brushSize' = InitialBrush
         /\ edPrompt' = <<>>
         /\ isProcessing' = FALSE
         /\ isDrawing' = FALSE
         /\ mask' = {}
         /\ pathPt' = NoPoint
         /\ effLoads' = {}
         /\ sizedFor' = NoImage

\* The Editor when the running handler touches none of its state.
EditorKeeps(cur2, mode2) == EditorRender(cur2, mode2, mask, edPrompt, isProcessing)

\* Requests across the same render: edit requests lose their Editor when it
\* is unmounted.
ReqsRender(rs, cur2, mode2) ==
    IF EditorShown /\ ~(cur2 # NoImage /\ mode2 = "edit") THEN Orphaned(rs) ELSE rs

(* ------------------------------- Init --------------------------------- *)
Init ==
    /\ apiKey \in BOOLEAN
    /\ prompt = <<>>
    /\ ratio = SQUARE
    /\ currentImage = NoImage
    /\ history = <<>>
    /\ isGenerating = FALSE
    /\ mode = "generate"
    /\ error = NoError
    /\ brushSize = InitialBrush
    /\ edPrompt = <<>>
    /\ isProcessing = FALSE
    /\ isDrawing = FALSE
    /\ mask = {}
    /\ pathPt = NoPoint
    /\ effLoads = {}
    /\ sizedFor = NoImage
    /\ reqs = <<>>
    /\ ev = Event("init")

(* ------------------------------ App ----------------------------------- *)
\* <textarea onChange>
SetPrompt(p) ==
    /\ FormShown
    /\ p # prompt
    /\ prompt' = p
    /\ ev' = Event("setPrompt")
    /\ UNCHANGED <<apiKey, ratio, currentImage, history, isGenerating, mode, error,
                   edVars, reqs>>

\* aspect-ratio buttons
SetRatio(r) ==
    /\ FormShown
    /\ ratio' = r
    /\ ev' = Event("setRatio")
    /\ UNCHANGED <<apiKey, prompt, currentImage, history, isGenerating, mode, error,
                   edVars, reqs>>

\* generateImage without its API_KEY check
GenerateImageNeverThrows == FALSE

\* generateImage up to its await: without a key it throws at once
GenerateImageThrows == ~apiKey

\* handleGenerate up to its first suspension.  A missing key rejects the
\* awaited promise before any other event is dispatched, so catch and
\* finally run in the same step.
HandleGenerate ==
    /\ ev' = Event("generate")
    /\ IF Trim(prompt) = <<>>
       THEN UNCHANGED <<isGenerating, error, reqs>>
       ELSE IF GenerateImageThrows
            THEN /\ error' = OrElse(MsgNoKey, MsgGenerateFallback)
                 /\ isGenerating' = FALSE
                 /\ reqs' = Superseded(reqs)
            ELSE /\ Len(reqs) < MaxInFlight
                 /\ isGenerating' = TRUE
                 /\ error' = NoError
                 /\ reqs' = Append(Superseded(reqs),
                                   [kind |-> "gen", stage |-> "remote", src |-> NoImage,
                                    alive |-> TRUE, stale |-> FALSE,
                               drawn |-> NoImage])
    /\ UNCHANGED <<apiKey, prompt, ratio, currentImage, history, mode, edVars>>

\* Generate Image button (disabled={isGenerating || !prompt})
ClickGenerate ==
    /\ FormShown
    /\ ~(isGenerating \/ prompt = <<>>)
    /\ HandleGenerate

\* Enter without Shift in the prompt textarea
EnterGenerate ==
    /\ FormShown
    /\ HandleGenerate

\* handleGenerate appending to history instead of replacing it
GenerateOkAppends(i, img) ==
    /\ i \in 1..Len(reqs)
    /\ reqs[i].kind = "gen"
    /\ Len(history) < MaxHist
    /\ currentImage' = img
    /\ history' = Append(history, img)
    /\ isGenerating' = FALSE
    /\ EditorKeeps(img, mode)
    /\ reqs' = ReqsRender(RemoveAt(reqs, i), img, mode)
    /\ ev' = [Event("generateOk") EXCEPT !.stale = reqs[i].stale, !.img = img]
    /\ UNCHANGED <<apiKey, prompt, ratio, mode, error>>

\* generateImage resolves: the rest of handleGenerate's try, then finally
GenerateOk(i, img) ==
    /\ i \in 1..Len(reqs)
    /\ reqs[i].kind = "gen"
    /\ currentImage' = img
    /\ history' = <<img>>
    /\ isGenerating' = FALSE
    /\ EditorKeeps(img, mode)
    /\ reqs' = ReqsRender(RemoveAt(reqs, i), img, mode)
    /\ ev' = [Event("generateOk") EXCEPT !.stale = reqs[i].stale, !.img = img]
    /\ UNCHANGED <<apiKey, prompt, ratio, mode, error>>

\* generateImage rejects: no image part in the response (noImage), or the
\* transport threw an error carrying message m
GenerateImageError(noImage, m) ==
    OrElse(IF noImage THEN MsgNoImage ELSE m, MsgGenerateFallback)

\* handleGenerate's catch, then finally
GenerateFail(i, noImage, m) ==
    /\ i \in 1..Len(reqs)
    /\ reqs[i].kind = "gen"
    /\ error' = OrElse(GenerateImageError(noImage, m), MsgGenerateFallback)
    /\ isGenerating' = FALSE
    /\ reqs' = RemoveAt(reqs, i)
    /\ ev' = [Event("generateFail") EXCEPT !.stale = reqs[i].stale]
    /\ UNCHANGED <<apiKey, prompt, ratio, currentImage, history, mode, edVars>>

\* handleUpdateImage without its setCurrentImage call
HandleUpdateImageKeepsCurrent(newImage) ==
    [history |-> Append(history, newImage), currentImage |-> currentImage]

\* handleUpdateImage putting the new image first in history
HandleUpdateImagePrepends(newImage) ==
    [history |-> <<newImage>> \o history, currentImage |-> newImage]

\* handleUpdateImage(newImage): the new history and current image
HandleUpdateImage(newImage) ==
    [history |-> Append(history, newImage), currentImage |-> newImage]

\* handleUndo showing the image it removed (previous read from history, not
\* from newHistory)
HandleUndoShowsRemoved ==
    /\ ev' = [Event("undo") EXCEPT !.n = Len(history)]
    /\ IF Len(history) > 1
       THEN /\ history' = Front(history)
            /\ currentImage' = Last(history)
            /\ reqs' = ReqsRender(Superseded(reqs), Last(history), mode)
            /\ EditorKeeps(Last(history), mode)
       ELSE UNCHANGED <<history, currentImage, reqs, edVars>>
    /\ UNCHANGED <<apiKey, prompt, ratio, isGenerating, mode, error>>

\* handleUndo guarded by history.length > 0: the only image is popped and
\* newHistory[-1] is undefined
HandleUndoOffByOne ==
    /\ ev' = [Event("undo") EXCEPT !.n = Len(history)]
    /\ IF Len(history) > 0
       THEN LET previous == IF Len(history) > 1 THEN Last(Front(history)) ELSE NoImage
            IN /\ history' = Front(history)
               /\ currentImage' = previous
               /\ reqs' = ReqsRender(Superseded(reqs), previous, mode)
               /\ EditorKeeps(previous, mode)
       ELSE UNCHANGED <<history, currentImage, reqs, edVars>>
    /\ UNCHANGED <<apiKey, prompt, ratio, isGenerating, mode, error>>

\* What the fill applied by the last event had found; nothing when the last
\* event was not an applied fill.
FoundByFill == IF ev.op = "fillOk" THEN ev.before ELSE Session(<<>>, NoImage)

\* handleUndo popping the first image instead of the last (shift for pop)
HandleUndoDropsFirst ==
    /\ ev' = [Event("undo") EXCEPT !.n = Len(history), !.before = FoundByFill]
    /\ IF Len(history) > 1
       THEN /\ history' = Tail(history)
            /\ currentImage' = Last(history)
            /\ reqs' = ReqsRender(Superseded(reqs), Last(history), mode)
            /\ EditorKeeps(Last(history), mode)
       ELSE UNCHANGED <<history, currentImage, reqs, edVars>>
    /\ UNCHANGED <<apiKey, prompt, ratio, isGenerating, mode, error>>

\* handleUndo.  The event keeps what a fill that was applied just before it
\* had found.
HandleUndo ==
    /\ ev' = [Event("undo") EXCEPT !.n = Len(history), !.before = FoundByFill]
    /\ IF Len(history) > 1
       THEN /\ history' = Front(history)
            /\ currentImage' = Last(Front(history))
            /\ reqs' = ReqsRender(Superseded(reqs), Last(Front(history)), mode)
            /\ EditorKeeps(Last(Front(history)), mode)
       ELSE UNCHANGED <<history, currentImage, reqs, edVars>>
    /\ UNCHANGED <<apiKey, prompt, ratio, isGenerating, mode, error>>

\* handleReset keeping the last image instead of the first
HandleResetToLast ==
    /\ ev' = [Event("reset") EXCEPT !.n = Len(history)]
    /\ IF Len(history) > 0
       THEN /\ history' = <<Last(history)>>
            /\ currentImage' = Last(history)
            /\ reqs' = ReqsRender(Superseded(reqs), Last(history), mode)
            /\ EditorKeeps(Last(history), mode)
       ELSE UNCHANGED <<history, currentImage, reqs, edVars>>
    /\ UNCHANGED <<apiKey, prompt, ratio, isGenerating, mode, error>>

\* handleReset
HandleReset ==
    /\ ev' = [Event("reset") EXCEPT !.n = Len(history)]
    /\ IF Len(history) > 0
       THEN /\ history' = <<history[1]>>
            /\ currentImage' = history[1]
            /\ reqs' = ReqsRender(Superseded(reqs), history[1], mode)
            /\ EditorKeeps(history[1], mode)
       ELSE UNCHANGED <<history, currentImage, reqs, edVars>>
    /\ UNCHANGED <<apiKey, prompt, ratio, isGenerating, mode, error>>

\* Undo button of the editor toolbar (disabled={history.length <= 1})
ClickUndo ==
    /\ EditorShown
    /\ ~(Len(history) <= 1)
    /\ HandleUndo

\* Reset button of the editor toolbar (disabled={history.length <= 1})
ClickReset ==
    /\ EditorShown
    /\ ~(Len(history) <= 1)
    /\ HandleReset

\* handleDownload, from the viewer or the editor toolbar
HandleDownload ==
    /\ currentImage # NoImage
    /\ ev' = Event("download")
    /\ UNCHANGED <<apiKey, appVars, edVars, reqs>>

\* the close button of the error notification ({error && ...})
DismissError ==
    /\ error # NoError /\ error # ""
    /\ error' = NoError
    /\ ev' = Event("dismissError")
    /\ UNCHANGED <<apiKey, prompt, ratio, currentImage, history, isGenerating, mode,
                   edVars, reqs>>

\* Continue Editing (Fill) rendered whether or not there is a current image
EnterEditFromForm ==
    /\ mode = "generate"
    /\ mode' = "edit"
    /\ EditorKeeps(currentImage, "edit")
    /\ reqs' = ReqsRender(reqs, currentImage, "edit")
    /\ ev' = Event("enterEdit")
    /\ UNCHANGED <<apiKey, prompt, ratio, currentImage, history, isGenerating, error>>

\* Continue Editing (Fill)
EnterEdit ==
    /\ ViewerShown
    /\ mode' = "edit"
    /\ EditorKeeps(currentImage, "edit")
    /\ reqs' = ReqsRender(reqs, currentImage, "edit")
    /\ ev' = Event("enterEdit")
    /\ UNCHANGED <<apiKey, prompt, ratio, currentImage, history, isGenerating, error>>

\* New Image without its setPrompt('') call
NewImageKeepsPrompt ==
    /\ ViewerShown
    /\ currentImage' = NoImage
    /\ history' = <<>>
    /\ EditorKeeps(NoImage, mode)
    /\ reqs' = ReqsRender(Superseded(reqs), NoImage, mode)
    /\ ev' = Event("newImage")
    /\ UNCHANGED <<apiKey, prompt, ratio, isGenerating, mode, error>>

\* New Image
NewImage ==
    /\ ViewerShown
    /\ currentImage' = NoImage
    /\ history' = <<>>
    /\ prompt' = <<>>
    /\ EditorKeeps(NoImage, mode)
    /\ reqs' = ReqsRender(Superseded(reqs), NoImage, mode)
    /\ ev' = Event("newImage")
    /\ UNCHANGED <<apiKey, ratio, isGenerating, mode, error>>

\* setMode('generate') also committing the edits: history cut down to the
\* current image
LeaveEditCommits(op) ==
    /\ EditorShown
    /\ mode' = "generate"
    /\ history' = <<currentImage>>
    /\ EditorKeeps(currentImage, "generate")
    /\ reqs' = ReqsRender(reqs, currentImage, "generate")
    /\ ev' = Event(op)
    /\ UNCHANGED <<apiKey, prompt, ratio, currentImage, isGenerating, error>>

\* setMode('generate'): the editor's two ways out
LeaveEdit(op) ==
    /\ EditorShown
    /\ mode' = "generate"
    /\ EditorKeeps(currentImage, "generate")
    /\ reqs' = ReqsRender(reqs, currentImage, "generate")
    /\ ev' = Event(op)
    /\ UNCHANGED <<apiKey, prompt, ratio, currentImage, history, isGenerating, error>>

\* Done, in the editor toolbar
Done == LeaveEdit("done")

\* Exit Editor (onCancel)
ExitEditor == LeaveEdit("exitEditor")

(* ------------------------------ Editor -------------------------------- *)
\* Brush Size range input
SetBrushSize(b) ==
    /\ EditorShown
    /\ b # brushSize
    /\ brushSize' = b
    /\ ev' = Event("setBrushSize")
    /\ UNCHANGED <<apiKey, appVars, edPrompt, isProcessing, isDrawing, mask, pathPt,
                   effLoads, sizedFor, reqs>>

\* Generative Fill Prompt input onChange
SetEdPrompt(p) ==
    /\ EditorShown
    /\ p # edPrompt
    /\ edPrompt' = p
    /\ ev' = Event("setEdPrompt")
    /\ UNCHANGED <<apiKey, appVars, brushSize, isProcessing, isDrawing, mask, pathPt,
                   effLoads, sizedFor, reqs>>

\* ctx.lineTo(p); ctx.stroke(): the overlay after it.  With no current point
\* lineTo only starts a subpath, and a subpath of one point strokes nothing.
Stroke(p) ==
    IF pathPt = NoPoint THEN mask
    ELSE mask \cup {[from |-> pathPt, to |-> p, width |-> brushSize]}

\* draw(e), reading isDrawing of the render the handler was created in
Draw(p) ==
    IF ~isDrawing
    THEN UNCHANGED <<mask, pathPt>>
    ELSE /\ Cardinality(Stroke(p)) <= MaxStrokes
         /\ mask' = Stroke(p)
         /\ pathPt' = p

\* onMouseMove / onTouchMove
MoveDraw(p) ==
    /\ EditorShown
    /\ Draw(p)
    /\ ev' = [Event("draw") EXCEPT !.pt = p]
    /\ UNCHANGED <<apiKey, appVars, brushSize, edPrompt, isProcessing, isDrawing,
                   effLoads, sizedFor, reqs>>

\* startDrawing: onMouseDown / onTouchStart
StartDrawing(p) ==
    /\ EditorShown
    /\ isDrawing' = TRUE
    /\ Draw(p)
    /\ ev' = [Event("startDrawing") EXCEPT !.pt = p]
    /\ UNCHANGED <<apiKey, appVars, brushSize, edPrompt, isProcessing, effLoads,
                   sizedFor, reqs>>

\* stopDrawing: onMouseUp / onMouseLeave / onTouchEnd
StopDrawing ==
    /\ EditorShown
    /\ isDrawing' = FALSE
    /\ pathPt' = NoPoint
    /\ ev' = Event("stopDrawing")
    /\ UNCHANGED <<apiKey, appVars, brushSize, edPrompt, isProcessing, mask, effLoads,
                   sizedFor, reqs>>

\* handleClearMask on a mounted canvas: ctx.clearRect over the whole canvas
HandleClearMask == {}

\* Clear Mask button
ClearMask ==
    /\ EditorShown
    /\ mask' = HandleClearMask
    /\ ev' = Event("clearMask")
    /\ UNCHANGED <<apiKey, appVars, brushSize, edPrompt, isProcessing, isDrawing, pathPt,
                   effLoads, sizedFor, reqs>>

\* img.onload of the canvas effect: the canvas takes the image's width and
\* height; assigning canvas.width and canvas.height resets the bitmap and the
\* context, the path with it
EffectLoaded(img) ==
    /\ EditorShown
    /\ img \in effLoads
    /\ effLoads' = effLoads \ {img}
    /\ sizedFor' = img
    /\ mask' = {}
    /\ pathPt' = NoPoint
    /\ ev' = [Event("effectLoaded") EXCEPT !.img = img]
    /\ UNCHANGED <<apiKey, appVars, brushSize, edPrompt, isProcessing, isDrawing, reqs>>

\* handleGenerativeFill testing !prompt instead of !prompt.trim()
HandleGenerativeFillUntrimmed ==
    /\ ev' = Event("fill")
    /\ IF edPrompt = <<>>
       THEN /\ error' = MsgBlankFill
            /\ UNCHANGED <<isProcessing, reqs>>
       ELSE /\ Len(reqs) < MaxInFlight
            /\ isProcessing' = TRUE
            /\ reqs' = Append(Superseded(reqs),
                              [kind |-> "edit", stage |-> "load", src |-> currentImage,
                               alive |-> TRUE, stale |-> FALSE,
                               drawn |-> NoImage])
            /\ UNCHANGED error
    /\ UNCHANGED <<apiKey, prompt, ratio, currentImage, history, isGenerating, mode,
                   brushSize, edPrompt, isDrawing, mask, pathPt, effLoads, sizedFor>>

\* handleGenerativeFill up to its first await (the load of the source image)
HandleGenerativeFill ==
    /\ ev' = Event("fill")
    /\ IF Trim(edPrompt) = <<>>
       THEN /\ error' = MsgBlankFill
            /\ UNCHANGED <<isProcessing, reqs>>
       ELSE /\ Len(reqs) < MaxInFlight
            /\ isProcessing' = TRUE
            /\ reqs' = Append(Superseded(reqs),
                              [kind |-> "edit", stage |-> "load", src |-> currentImage,
                               alive |-> TRUE, stale |-> FALSE,
                               drawn |-> NoImage])
            /\ UNCHANGED error
    /\ UNCHANGED <<apiKey, prompt, ratio, currentImage, history, isGenerating, mode,
                   brushSize, edPrompt, isDrawing, mask, pathPt, effLoads, sizedFor>>

\* Generate Fill button (disabled={isProcessing || !prompt.trim()})
ClickFill ==
    /\ EditorShown
    /\ ~(isProcessing \/ Trim(edPrompt) = <<>>)
    /\ HandleGenerativeFill

\* Enter in the fill prompt input
EnterFill ==
    /\ EditorShown
    /\ HandleGenerativeFill

\* editImageWithMask up to its await: without a key it throws at once
EditImageThrows == ~apiKey

\* setIsProcessing(false) reaches the Editor only while that instance is mounted
ClearProcessing(r) == IF r.alive THEN FALSE ELSE isProcessing

\* handleGenerativeFill without `await new Promise(... img.onload ...)`: the
\* continuation runs with the image not yet loaded, and drawImage of such an
\* image draws nothing
FillImageNotAwaited(i) ==
    /\ i \in 1..Len(reqs)
    /\ reqs[i].kind = "edit"
    /\ reqs[i].stage = "load"
    /\ ev' = [Event("fillLoaded") EXCEPT !.stale = reqs[i].stale, !.alive = reqs[i].alive]
    /\ IF EditImageThrows
       THEN /\ error' = MsgNoKey
            /\ isProcessing' = ClearProcessing(reqs[i])
            /\ reqs' = RemoveAt(reqs, i)
       ELSE /\ reqs' = [reqs EXCEPT ![i].stage = "remote"]
            /\ UNCHANGED <<error, isProcessing>>
    /\ UNCHANGED <<apiKey, prompt, ratio, currentImage, history, isGenerating, mode,
                   brushSize, edPrompt, isDrawing, mask, pathPt, effLoads, sizedFor>>

\* img.onload in handleGenerativeFill: the composite is drawn and
\* editImageWithMask is called
FillImageLoaded(i) ==
    /\ i \in 1..Len(reqs)
    /\ reqs[i].kind = "edit"
    /\ reqs[i].stage = "load"
    /\ Decodable(reqs[i].src)
    /\ ev' = [Event("fillLoaded") EXCEPT !.stale = reqs[i].stale, !.alive = reqs[i].alive]
    /\ IF EditImageThrows
       THEN /\ error' = MsgNoKey
            /\ isProcessing' = ClearProcessing(reqs[i])
            /\ reqs' = RemoveAt(reqs, i)
       ELSE /\ reqs' = [reqs EXCEPT ![i].stage = "remote", ![i].drawn = reqs[i].src]
            /\ UNCHANGED <<error, isProcessing>>
    /\ UNCHANGED <<apiKey, prompt, ratio, currentImage, history, isGenerating, mode,
                   brushSize, edPrompt, isDrawing, mask, pathPt, effLoads, sizedFor>>

\* editImageWithMask resolves: onUpdateImage, handleClearMask, setPrompt(''),
\* then finally.  The last three act on the Editor instance that ran
\* handleGenerativeFill: once it is unmounted its canvasRef is null and its
\* setters change nothing.
FillOk(i, img) ==
    /\ i \in 1..Len(reqs)
    /\ reqs[i].kind = "edit"
    /\ reqs[i].stage = "remote"
    /\ Len(history) < MaxHist
    /\ history' = HandleUpdateImage(img).history
    /\ currentImage' = HandleUpdateImage(img).currentImage
    /\ IF reqs[i].alive
       THEN EditorRender(currentImage', mode, HandleClearMask, <<>>, FALSE)
       ELSE EditorKeeps(currentImage', mode)
    /\ reqs' = ReqsRender(RemoveAt(reqs, i), currentImage', mode)
    /\ ev' = [Event("fillOk") EXCEPT !.stale = reqs[i].stale, !.alive = reqs[i].alive,
                                     !.img = img,
                                     !.before = Session(history, currentImage)]
    /\ UNCHANGED <<apiKey, prompt, ratio, isGenerating, mode, error>>

\* editImageWithMask rethrowing the caught error instead of wrapping it
EditImageErrorRethrown(noImage, m) == IF noImage THEN MsgNoEdited ELSE m

\* editImageWithMask rejects: no image part in the response (noImage), or the
\* transport threw an error carrying message m
EditImageError(noImage, m) ==
    OrElse(IF noImage THEN MsgNoEdited ELSE m, MsgEditFallback)

\* handleGenerativeFill's catch, then finally
FillFail(i, noImage, m) ==
    /\ i \in 1..Len(reqs)
    /\ reqs[i].kind = "edit"
    /\ reqs[i].stage = "remote"
    /\ error' = EditImageError(noImage, m)
    /\ isProcessing' = ClearProcessing(reqs[i])
    /\ reqs' = RemoveAt(reqs, i)
    /\ ev' = [Event("fillFail") EXCEPT !.stale = reqs[i].stale, !.alive = reqs[i].alive]
    /\ UNCHANGED <<apiKey, prompt, ratio, currentImage, history, isGenerating, mode,
                   brushSize, edPrompt, isDrawing, mask, pathPt, effLoads, sizedFor>>

(* --------------------------- specifications --------------------------- *)
\* The form: typing a prompt, picking a ratio
FormInput ==
    \/ \E p \in PromptTexts : SetPrompt(p)
    \/ \E r \in AspectRatio : SetRatio(r)

\* Submitting a generation and its completion
Generation ==
    \/ ClickGenerate
    \/ EnterGenerate
    \/ \E i \in 1..MaxInFlight, img \in Images : GenerateOk(i, img)
    \/ \E i \in 1..MaxInFlight, noImage \in BOOLEAN, m \in TransportMessages :
          GenerateFail(i, noImage, m)

\* Viewer and toolbar buttons
Buttons ==
    \/ ClickUndo
    \/ ClickReset
    \/ NewImage
    \/ EnterEdit
    \/ Done
    \/ ExitEditor
    \/ HandleDownload
    \/ DismissError

\* Submitting a generative fill and its completion
Fill ==
    \/ \E p \in PromptTexts : SetEdPrompt(p)
    \/ ClickFill
    \/ EnterFill
    \/ \E i \in 1..MaxInFlight : FillImageLoaded(i)
    \/ \E i \in 1..MaxInFlight, img \in Images : FillOk(i, img)
    \/ \E i \in 1..MaxInFlight, noImage \in BOOLEAN, m \in TransportMessages :
          FillFail(i, noImage, m)

\* The canvas effect's image load completes
CanvasEffect == \E img \in Images : EffectLoaded(img)

\* Pointer input on the mask canvas, and the Clear Mask button
Painting ==
    \/ \E p \in Points : StartDrawing(p)
    \/ \E p \in Points : MoveDraw(p)
    \/ StopDrawing
    \/ ClearMask

\* The session: every control of App and the Editor's fill controls, with a
\* user who does not paint and leaves ratio and brush alone.
Next ==
    \/ \E p \in PromptTexts : SetPrompt(p)
    \/ Generation
    \/ Buttons
    \/ Fill
    \/ CanvasEffect

Spec == Init /\ [][Next]_vars

\* The generate form with its ratio buttons, the viewer, and entering and
\* leaving the editor; no fill is submitted.
GenNext ==
    \/ FormInput
    \/ Generation
    \/ NewImage
    \/ EnterEdit
    \/ Done
    \/ DismissError
    \/ CanvasEffect

GenSpec == Init /\ [][GenNext]_vars

\* The editor with its mask canvas: a user who paints and submits fills, and
\* reaches the editor through the Generate button.
MaskNext ==
    \/ \E p \in PromptTexts : SetPrompt(p)
    \/ ClickGenerate
    \/ \E i \in 1..MaxInFlight, img \in Images : GenerateOk(i, img)
    \/ \E i \in 1..MaxInFlight, noImage \in BOOLEAN, m \in TransportMessages :
          GenerateFail(i, noImage, m)
    \/ EnterEdit
    \/ Done
    \/ Fill
    \/ CanvasEffect
    \/ Painting

MaskSpec == Init /\ [][MaskNext]_vars

\* handleUndo and handleReset called directly, whatever is rendered: the
\* toolbar only calls them with two or more images in history.
CallUndo == HandleUndo
CallReset == HandleReset

CtlNext ==
    \/ Next
    \/ CallUndo
    \/ CallReset

CtlSpec == Init /\ [][CtlNext]_vars

\* Every control of the application, in the hands of a user who types one
\* prompt text and submits with the buttons; a remote call that fails has
\* returned a response without an image.
FrameNext ==
    \/ SetPrompt(<<"a">>)
    \/ ClickGenerate
    \/ \E i \in 1..MaxInFlight, img \in Images : GenerateOk(i, img)
    \/ \E i \in 1..MaxInFlight : GenerateFail(i, TRUE, "")
    \/ Buttons
    \/ SetEdPrompt(<<"a">>)
    \/ ClickFill
    \/ \E i \in 1..MaxInFlight : FillImageLoaded(i)
    \/ \E i \in 1..MaxInFlight, img \in Images : FillOk(i, img)
    \/ \E i \in 1..MaxInFlight : FillFail(i, TRUE, "")
    \/ CanvasEffect
    \/ Painting
    \/ \E b \in BrushSizes : SetBrushSize(b)

FrameSpec == Init /\ [][FrameNext]_vars

\* The suspended handler run in slot i resumes: its promise settles.  The
\* load of an undecodable source image settles neither way.
Settle(i) ==
    \/ \E img \in Images : GenerateOk(i, img)
    \/ \E noImage \in BOOLEAN, m \in TransportMessages : GenerateFail(i, noImage, m)
    \/ FillImageLoaded(i)
    \/ \E img \in Images : FillOk(i, img)
    \/ \E noImage \in BOOLEAN, m \in TransportMessages : FillFail(i, noImage, m)

\* The session under the event loop's guarantee: a remote call that was
\* issued settles, and a continuation whose promise settled is run.  The
\* user is under no obligation.
LiveSpec == Spec /\ \A i \in 1..MaxInFlight : WF_vars(Settle(i))

(* ------------------------------ claims -------------------------------- *)
Applied == {"generateOk", "fillOk"}
Failed == {"generateFail", "fillFail"}

\* C1 (as claimed): in every reachable state at most one generation or edit
\* request is in flight; no click and no Enter starts a second one while one
\* is outstanding.
C1_AtMostOneInFlight == Len(reqs) <= 1

\* C2 (as claimed): a response is applied to current image and history only
\* if no newer operation (generation, edit, undo, reset, new image) started
\* after its request was issued; the response of a superseded request is
\* never applied.
C2_NoStaleResponseApplied == ~(ev.op \in Applied /\ ev.stale)

\* C3: in every reachable state, a current image implies a non-empty
\* history, and in edit mode the current image is the last element of
\* history.
C3_HistoryInvariant ==
    /\ currentImage # NoImage => history # <<>>
    /\ mode = "edit" => (history # <<>> /\ currentImage = Last(history))

\* C3 witness: in edit mode, with two or more images, right after the
\* response of a superseded fill request was applied.
C3_Witness ==
    /\ mode = "edit"
    /\ Len(history) >= 2
    /\ ev.op = "fillOk"
    /\ ev.stale

\* C4: right after a generation succeeds with image I, history is exactly
\* <<I>> and the current image is I, whatever the history was before.
C4_GenerationResetsHistory ==
    ev.op = "generateOk" => (history = <<ev.img>> /\ currentImage = ev.img)

\* C4 witness: a generation succeeded under a ratio other than the default
\* while the editor was open, so history held an image before it.
C4_Witness ==
    /\ ev.op = "generateOk"
    /\ mode = "edit"
    /\ ratio = "16:9"

\* C5 (as claimed): whenever a fill succeeds with result I2 from history H,
\* the resulting history is H followed by I2, the current image is I2 and
\* the mask overlay is empty.
C5_FillAppendsAndClearsMask ==
    [][ev'.op = "fillOk" =>
         /\ history' = Append(history, ev'.img)
         /\ currentImage' = ev'.img
         /\ mask' = {}]_vars

\* C6: undo leaves history and current image unchanged when history has at
\* most one element; otherwise it removes exactly the last element and the
\* current image becomes the new last element.
C6_Undo ==
    [][ev'.op = "undo" =>
         IF Len(history) <= 1
         THEN UNCHANGED <<history, currentImage>>
         ELSE /\ history' = SubSeq(history, 1, Len(history) - 1)
              /\ currentImage' = history[Len(history) - 1]]_vars

\* C6 witness: undo ran on a history of three images and left two.
C6_Witness ==
    /\ ev.op = "undo"
    /\ ev.n = 3
    /\ Len(history) = 2

\* C7: reset changes nothing when history is empty; otherwise history
\* becomes the one-element list of its former first element, which becomes
\* the current image.
C7_Reset ==
    [][ev'.op = "reset" =>
         IF history = <<>>
         THEN UNCHANGED <<history, currentImage>>
         ELSE /\ history' = <<history[1]>>
              /\ currentImage' = history[1]]_vars

\* C7 witness: reset ran on a history of three images and left one.
C7_Witness ==
    /\ ev.op = "reset"
    /\ ev.n = 3
    /\ Len(history) = 1

\* C8: a reset on a non-empty history leaves exactly one image, and from a
\* history of one image every undo and every reset leaves history and
\* current image unchanged; so after a reset any sequence of undo and reset
\* calls changes nothing.
C8_ResetThenUndoIsIdle ==
    [][/\ (ev'.op = "reset" /\ history # <<>>) => Len(history') = 1
       /\ (ev'.op \in {"undo", "reset"} /\ Len(history) = 1) =>
              UNCHANGED <<history, currentImage>>]_vars

\* C8 witness: undo was called on a history of one image.
C8_Witness ==
    /\ ev.op = "undo"
    /\ ev.n = 1
    /\ Len(history) = 1
    /\ currentImage = history[1]

\* A step in which a request fails: the remote call rejects, or the client
\* throws for want of a key when the handler calls it.
FailureStep ==
    \/ ev'.op \in Failed
    \/ ~apiKey /\ ev'.op = "generate" /\ Trim(prompt) # <<>>
    \/ ~apiKey /\ ev'.op = "fillLoaded"

\* C9: the steps of a request that fails (its start, the load of its source
\* image, its failure) leave current image, history, mode and mask overlay
\* as they were, and the failure leaves a message in last error.
C9_FailureLeavesStateUntouched ==
    [][/\ ev'.op \in {"generate", "fill", "fillLoaded"} \cup Failed =>
              UNCHANGED <<currentImage, history, mode, mask>>
       /\ FailureStep => (error' # NoError /\ error' # "")]_vars

\* C9 witness: a fill has just failed for a transport error without a
\* message, on a painted overlay and a history of two images.
C9_Witness ==
    /\ ev.op = "fillFail"
    /\ error = MsgEditFallback
    /\ mask # {}
    /\ Len(history) = 2

\* C10 (as claimed): every accepted generation and every accepted fill
\* eventually clears the in-flight flag it set, whatever the outcome of the
\* steps it waits on.
C10_InFlightEventuallyCleared ==
    /\ isGenerating ~> ~isGenerating
    /\ isProcessing ~> ~isProcessing

\* A text that is empty or holds white space only.
Blank(s) == \A i \in 1..Len(s) : s[i] = SP

\* C11: a generation submitted with a blank prompt (empty or white space
\* only) issues no request and leaves current image, history, mode, the
\* in-flight flag and last error unchanged.
C11_BlankGenerateIsNoOp ==
    [][(ev'.op = "generate" /\ Blank(prompt)) =>
          UNCHANGED <<currentImage, history, mode, isGenerating, error, reqs>>]_vars

\* C11 witness: Enter was pressed on a prompt of one space, with a key
\* configured, and nothing is in flight.
C11_Witness ==
    /\ ev.op = "generate"
    /\ prompt = <<SP>>
    /\ apiKey
    /\ reqs = <<>>
    /\ ~isGenerating

\* C12: a fill submitted with a blank prompt records a validation message in
\* last error, issues no request, does not set the in-flight flag and leaves
\* current image, history and mask overlay unchanged.
C12_BlankFillIsRejected ==
    [][(ev'.op = "fill" /\ Blank(edPrompt)) =>
          /\ error' # NoError /\ error' # ""
          /\ UNCHANGED <<reqs, isProcessing, currentImage, history, mask>>]_vars

\* C12 witness: Enter was pressed on a fill prompt of one space over a
\* painted overlay.
C12_Witness ==
    /\ ev.op = "fill"
    /\ edPrompt = <<SP>>
    /\ error = MsgBlankFill
    /\ mask # {}
    /\ ~isProcessing

\* C13: right after New Image the current image is absent, history is empty,
\* the prompt text is empty and mode is generate, as in the initial state.
C13_NewImageIsPreGeneration ==
    ev.op = "newImage" =>
        /\ currentImage = NoImage
        /\ history = <<>>
        /\ prompt = <<>>
        /\ mode = "generate"

\* C13 witness: New Image was clicked on an image generated under a ratio
\* other than the default.
C13_Witness ==
    /\ ev.op = "newImage"
    /\ ratio = "9:16"
    /\ currentImage = NoImage

\* C14: without a credential no remote call is ever outstanding; a generate
\* or edit call made without one records the error at once and leaves
\* current image and history unchanged.
C14_NoCredentialNoCall ==
    [][~apiKey =>
          /\ \A i \in 1..Len(reqs') : reqs'[i].stage # "remote"
          /\ ((ev'.op = "generate" /\ ~Blank(prompt)) \/ ev'.op = "fillLoaded") =>
                 /\ error' = MsgNoKey
                 /\ UNCHANGED <<currentImage, history>>]_vars

\* C14 witness: a generation was submitted without a credential and its
\* error is on display.
C14_Witness ==
    /\ ~apiKey
    /\ ev.op = "generate"
    /\ prompt = <<"a">>
    /\ error = MsgNoKey
    /\ reqs = <<>>

\* C15 (as claimed): pointer down leaves the canvas drawing, pointer up or
\* leave leaves it idle, strokes are added to the overlay only by a move
\* event received while drawing, and a move received while idle leaves the
\* overlay unchanged.
C15_IdleDrawingMachine ==
    [][/\ ev'.op = "startDrawing" => isDrawing'
       /\ ev'.op = "stopDrawing" => ~isDrawing'
       /\ (mask' \ mask # {}) => (ev'.op = "draw" /\ isDrawing)
       /\ (ev'.op = "draw" /\ ~isDrawing) => mask' = mask]_vars

\* C16 (as claimed): while drawing, a move that follows the pointer-down
\* event or another move of the stroke paints the segment from that event's
\* point to its own point, with the brush width configured at that moment.
C16_SegmentFromPreviousPoint ==
    [][(ev'.op = "draw" /\ isDrawing /\ ev.op \in {"startDrawing", "draw"}) =>
          [from |-> ev.pt, to |-> ev'.pt, width |-> brushSize] \in mask']_vars

\* C17 (as claimed): while the editor stays open, strokes leave the overlay
\* only at an explicit clear or at a successful fill; no other event removes
\* any.
C17_MaskKeptUntilClearOrSuccess ==
    [][(EditorShown /\ EditorShown' /\ mask \ mask' # {}) =>
          ev'.op \in {"clearMask", "fillOk"}]_vars

\* C18 (as claimed): whenever a fill is submitted on a source image that
\* loads, the canvas whose width and height the composite takes has the
\* width and height of that source image, the current image at submit time.
C18_CompositeHasSourceSize ==
    [][(ev'.op = "fill" /\ ~Blank(edPrompt) /\ Decodable(currentImage)) =>
          sizedFor = currentImage]_vars

\* C19: an edit request that waits for its source image has drawn nothing
\* and called nothing; one whose remote call is issued has its source image
\* loaded and drawn into the composite.
C19_CallAfterLoadAndDraw ==
    \A i \in 1..Len(reqs) :
        reqs[i].kind = "edit" =>
            IF reqs[i].stage = "load"
            THEN reqs[i].drawn = NoImage
            ELSE reqs[i].drawn = reqs[i].src /\ Decodable(reqs[i].src)

\* C19 witness: the remote call of a fill is outstanding, issued over a
\* painted overlay, while a second fill still waits for its source image.
C19_Witness ==
    /\ Len(reqs) = 2
    /\ reqs[1].kind = "edit" /\ reqs[1].stage = "remote" /\ reqs[1].drawn = reqs[1].src
    /\ reqs[2].kind = "edit" /\ reqs[2].stage = "load"
    /\ mask # {}

\* C20: current image and history change only when a remote call completes
\* successfully or at an undo, a reset or New Image; every other event leaves
\* both unchanged.
C20_SessionFrame ==
    [][(currentImage' # currentImage \/ history' # history) =>
          ev'.op \in Applied \cup {"undo", "reset", "newImage"}]_vars

\* C20 witness: the brush size was changed on a painted overlay while a fill
\* was in flight, with two images in history.
C20_Witness ==
    /\ ev.op = "setBrushSize"
    /\ mask # {}
    /\ isProcessing
    /\ Len(history) = 2

\* C21 (as claimed): in every reachable state the generation in-flight flag
\* is true while a generation request is outstanding, and the edit in-flight
\* flag is true while an edit request is outstanding.
C21_FlagTrueWhileOutstanding ==
    \A i \in 1..Len(reqs) :
        /\ reqs[i].kind = "gen" => isGenerating
        /\ reqs[i].kind = "edit" => isProcessing

\* C22: an undo that follows at once a fill applied on a non-empty history
\* leaves history and current image exactly as that fill had found them.
C22_EditThenUndoRestores ==
    (ev.op = "undo" /\ ev.before.history # <<>>) =>
        /\ history = ev.before.history
        /\ currentImage = ev.before.currentImage

\* C22 witness: a fill that arrived in the viewer on a history of two images
\* was undone at once.
C22_Witness ==
    /\ ev.op = "undo"
    /\ Len(ev.before.history) = 2
    /\ Len(history) = 2
    /\ mode = "generate"

\* C23: a generation result becomes the first element of history, and from a
\* non-empty history every event other than an applied generation result and
\* New Image (fill completion, undo, reset and the rest) leaves a non-empty
\* history with the same first element.
C23_OriginalImageKept ==
    [][/\ ev'.op = "generateOk" => history'[1] = ev'.img
       /\ (history # <<>> /\ ev'.op \notin {"generateOk", "newImage"}) =>
              (history' # <<>> /\ history'[1] = history[1])]_vars

\* C23 witness: undo ran on a history of three images and left two that
\* differ.
C23_Witness ==
    /\ ev.op = "undo"
    /\ ev.n = 3
    /\ Len(history) = 2
    /\ history[1] # history[2]

\* C24: in every reachable state mode edit implies a current image; the
\* state in which neither the form nor the viewer nor the editor is rendered
\* is never reached.
C24_EditModeHasImage ==
    /\ mode = "edit" => currentImage # NoImage
    /\ FormShown \/ ViewerShown \/ EditorShown

\* C24 witness: the response of a superseded generation request was applied
\* while the editor was open.
C24_Witness ==
    /\ mode = "edit"
    /\ ev.op = "generateOk"
    /\ ev.stale

====
